---- MODULE Spec2Model ----
(***************************************************************************)
(* Payments Explorer (src/app.py): a Streamlit script that is re-run from  *)
(* top to bottom on every interaction.  One run is                         *)
(*   load_data -> filter widgets -> mask/fdf -> charts -> page -> export.  *)
(*                                                                         *)
(* Representation.                                                         *)
(*  - A text is a tuple of one-character strings, so that strip, lower and *)
(*    the search match are computed character by character.                *)
(*  - A cell is a record [k, n, s]: k = "text" (s is the text), k = "num"  *)
(*    (n is the number in thousandths: 2020 is 2020000, 1.006 is 1006) or  *)
(*    k = "nan" (a missing value).  Numbers whose third decimal is 5 are   *)
(*    not drawn: Python rounds those as their binary float lies.           *)
(*  - A file is what pd.read_csv hands back: its header names as written   *)
(*    and its rows as tuples of cells.  A numeric-looking entry of a text  *)
(*    column is carried as its text.  Header names are distinct after      *)
(*    renaming.                                                            *)
(***************************************************************************)
EXTENDS Integers, Sequences, FiniteSets, TLC

VARIABLES
    uploaded,       \* st.file_uploader's value: None or the uploaded file
    default_file,   \* fake_data.csv in the working directory: None or a file
    cache,          \* st.cache_data's store for load_data: argument -> result
    pc,             \* position of the script run
    missing,        \* the list shown by st.error, <<>> when none was shown
    columns,        \* df.columns, in the data frame's column order
    df,             \* the normalized table load_data returned
    city_sel, receiver_sel, type_sel, payes_sel,
    year_range, value_range, search,
    fdf,            \* the filtered table
    by_city,        \* the "values by city" chart data
    page_size, total_pages, page,
    shown,          \* the rows handed to st.dataframe
    csv             \* the lines of the exported CSV, each a tuple of fields

vars == <<uploaded, default_file, cache, pc, missing, columns, df,
          city_sel, receiver_sel, type_sel, payes_sel, year_range,
          value_range, search, fdf, by_city, page_size, total_pages, page,
          shown, csv>>

(***************************************************************************)
(* Texts                                                                   *)
(***************************************************************************)
Uppers == <<"A","B","C","D","E","F","G","H","I","J","K","L","M",
            "N","O","P","Q","R","S","T","U","V","W","X","Y","Z">>
Lowers == <<"a","b","c","d","e","f","g","h","i","j","k","l","m",
            "n","o","p","q","r","s","t","u","v","w","x","y","z">>

LowerChar(c) ==
    IF \E i \in 1..Len(Uppers) : Uppers[i] = c
    THEN Lowers[CHOOSE i \in 1..Len(Uppers) : Uppers[i] = c]
    ELSE c

UpperChar(c) ==
    IF \E i \in 1..Len(Lowers) : Lowers[i] = c
    THEN Uppers[CHOOSE i \in 1..Len(Lowers) : Lowers[i] = c]
    ELSE c

\* str.lower()
Lower(s) == [i \in 1..Len(s) |-> LowerChar(s[i])]

IsSpace(c) == c = " "

RECURSIVE LStrip(_)
LStrip(s) == IF s # <<>> /\ IsSpace(Head(s)) THEN LStrip(Tail(s)) ELSE s

RECURSIVE RStrip(_)
RStrip(s) ==
    IF s # <<>> /\ IsSpace(s[Len(s)]) THEN RStrip(SubSeq(s, 1, Len(s) - 1)) ELSE s

\* str.strip()
Strip(s) == RStrip(LStrip(s))

Range(s) == {s[i] : i \in 1..Len(s)}

(***************************************************************************)
(* Cells                                                                   *)
(***************************************************************************)
T(s)   == [k |-> "text", n |-> 0, s |-> s]
Num(n) == [k |-> "num",  n |-> n, s |-> <<>>]
NaN    == [k |-> "nan",  n |-> 0, s |-> <<>>]

\* numbers are carried in thousandths
Milli == 10 * 10 * 10

\* pd.to_numeric(..., errors="coerce"): what does not parse becomes NaN
ToNumeric(c) == IF c.k = "num" THEN c ELSE NaN

\* .astype("Int64") refuses a float that is not a whole number
CastsToInt64(c) == c.k = "nan" \/ c.n % Milli = 0

\* .astype("Int64") of a value it accepts
ToInt64(c) == IF c.k = "nan" THEN NaN ELSE Num(c.n \div Milli)

\* .astype(str): a missing value becomes the text "nan"
Str(c) == IF c.k = "nan" THEN T(<<"n","a","n">>) ELSE T(c.s)

\* .replace({"now": "no"}): whole-value replacement
ReplaceNow(s) == IF s = <<"n","o","w">> THEN <<"n","o">> ELSE s

\* the replacement made before the text is trimmed and lower-cased
NormPayesReplaceFirst(c) == T(Lower(Strip(ReplaceNow(Str(c).s))))

\* .astype(str).str.strip().str.lower().replace({"now": "no"})
NormPayes(c) == T(ReplaceNow(Lower(Strip(Str(c).s))))

(***************************************************************************)
(* Files and load_data                                                     *)
(***************************************************************************)
cCity     == <<"c","i","t","y">>
cYear     == <<"y","e","a","r">>
cReceiver == <<"r","e","c","e","i","v","e","r">>
cValue    == <<"v","a","l","u","e">>
cType     == <<"t","y","p","e">>
cPayes    == <<"p","a","y","e","s">>
cNote     == <<"n","o","t","e">>

expected == <<cCity, cYear, cReceiver, cValue, cType, cPayes>>

None == [present |-> FALSE, columns |-> <<>>, rows |-> <<>>]
File(cols, rows) == [present |-> TRUE, columns |-> cols, rows |-> rows]

\* {c: c.strip().lower() for c in df.columns}; df.rename(columns=lower_cols)
Rename(cols) == [i \in 1..Len(cols) |-> Lower(Strip(cols[i]))]

\* the check made against the names as written in the file
MissingOfRaw(cols) == SelectSeq(expected, LAMBDA c : c \notin Range(cols))

\* [c for c in expected if c not in df.columns], after the rename
MissingColumns(cols) == SelectSeq(expected, LAMBDA c : c \notin Range(Rename(cols)))

\* one row of the frame: column name -> cell
RowOf(cols, raw) ==
    [c \in Range(cols) |-> raw[CHOOSE i \in 1..Len(cols) : cols[i] = c]]

\* the coercions of one row
Coerce(r) ==
    [c \in DOMAIN r |->
        IF c = cYear THEN ToInt64(ToNumeric(r[c]))
        ELSE IF c = cValue THEN ToNumeric(r[c])
        ELSE IF c \in {cCity, cReceiver, cType} THEN Str(r[c])
        ELSE IF c = cPayes THEN NormPayes(r[c])
        ELSE r[c]]

\* dropna(subset=["year", "value"]) keeps the row
Keeps(r) == r[cYear].k # "nan" /\ r[cValue].k # "nan"

\* the body of load_data on a frame read from a file
\*   "stop"  : st.error + st.stop()
\*   "raise" : astype("Int64") raised, the run ends with an exception
\*   "ok"    : the table is returned
Normalize(f) ==
    LET cols == Rename(f.columns)
        miss == MissingColumns(f.columns)
        rows == [i \in 1..Len(f.rows) |-> RowOf(cols, f.rows[i])]
    IN  IF miss # <<>>
        THEN [status |-> "stop", missing |-> miss, columns |-> <<>>, df |-> <<>>]
        ELSE IF \E i \in 1..Len(rows) : ~CastsToInt64(ToNumeric(rows[i][cYear]))
        THEN [status |-> "raise", missing |-> <<>>, columns |-> <<>>, df |-> <<>>]
        ELSE [status |-> "ok", missing |-> <<>>, columns |-> cols,
              df |-> SelectSeq([i \in 1..Len(rows) |-> Coerce(rows[i])], Keeps)]

(***************************************************************************)
(* The cached call df = load_data(uploaded)                                *)
(***************************************************************************)
\* st.cache_data keys a call by its arguments: file_like alone
CacheKey == uploaded

Cached == {e \in cache : e.key = CacheKey}

\* what the run has before load_data returns
BlankRun ==
    /\ missing = <<>> /\ columns = <<>> /\ df = <<>>
    /\ city_sel = {} /\ receiver_sel = <<>> /\ type_sel = {} /\ payes_sel = {}
    /\ year_range = <<0, 0>> /\ value_range = <<0, 0>> /\ search = <<>>
    /\ fdf = <<>> /\ by_city = <<>>
    /\ page_size = 0 /\ total_pages = 0 /\ page = 0
    /\ shown = <<>> /\ csv = <<>>

LoadData ==
    /\ pc = "load"
    /\ IF Cached # {}
       THEN LET e == CHOOSE e \in Cached : TRUE
            IN  /\ pc' = "widgets"
                /\ missing' = <<>>
                /\ columns' = e.columns
                /\ df' = e.df
                /\ cache' = cache
       ELSE IF ~uploaded.present /\ ~default_file.present
       THEN /\ pc' = "stopped"
            /\ UNCHANGED <<missing, columns, df, cache>>
       ELSE LET r == Normalize(IF uploaded.present THEN uploaded ELSE default_file)
            IN  /\ pc' = (IF r.status = "ok" THEN "widgets"
                          ELSE IF r.status = "stop" THEN "stopped" ELSE "raised")
                /\ missing' = r.missing
                /\ columns' = r.columns
                /\ df' = r.df
                /\ cache' = IF r.status = "ok"
                            THEN cache \cup {[key |-> CacheKey, columns |-> r.columns,
                                              df |-> r.df]}
                            ELSE cache
    /\ UNCHANGED <<uploaded, default_file, city_sel, receiver_sel, type_sel,
                   payes_sel, year_range, value_range, search, fdf, by_city,
                   page_size, total_pages, page, shown, csv>>

(***************************************************************************)
(* Filter widgets                                                          *)
(***************************************************************************)
All == <<"A","l","l">>
yes == <<"y","e","s">>
no  == <<"n","o">>

Col(t, c) == {t[i][c] : i \in 1..Len(t)}

\* sorted(df["city"].dropna().unique())
Cities(t) == {x.s : x \in Col(t, cCity)}
Types(t)  == {x.s : x \in Col(t, cType)}

\* the receivers offered: those of the selected cities, or all of them
ReceiverPool(t, cities) ==
    IF cities # {}
    THEN {t[i][cReceiver].s : i \in {j \in 1..Len(t) : t[j][cCity].s \in cities}}
    ELSE {x.s : x \in Col(t, cReceiver)}

SetMin(S) == CHOOSE x \in S : \A y \in S : x <= y
SetMax(S) == CHOOSE x \in S : \A y \in S : y <= x

Years(t)  == {x.n : x \in Col(t, cYear)}
Values(t) == {x.n : x \in Col(t, cValue)}

\* round(v, 2) of a number in thousandths
Round2(v) == IF v % 10 < 5 THEN v - (v % 10) ELSE v - (v % 10) + 10

\* value=(year_min, year_max)
DefaultYearRange(t) == <<SetMin(Years(t)), SetMax(Years(t))>>

\* value=(round(value_min, 2), round(value_max, 2))
DefaultValueRange(t) == <<Round2(SetMin(Values(t))), Round2(SetMax(Values(t)))>>

\* the slider positions drawn: the rounded values of the table
ValueStops(t) == {Round2(v) : v \in Values(t)}

\* the texts typed into the search box
SearchTexts ==
    { <<>>, <<"b","o">>, <<"N","A">>, <<"n","a","n">>, <<"b",".","b">> }

Widgets ==
    /\ pc = "widgets"
    /\ IF df = <<>>
       THEN \* int(df["year"].min()) of an empty column raises
            /\ pc' = "raised"
            /\ UNCHANGED <<city_sel, receiver_sel, type_sel, payes_sel,
                           year_range, value_range, search>>
       ELSE /\ pc' = "filter"
            /\ city_sel' \in SUBSET Cities(df)
            /\ receiver_sel' \in {All} \cup ReceiverPool(df, city_sel')
            /\ type_sel' \in SUBSET Types(df)
            /\ payes_sel' \in SUBSET {yes, no}
            /\ \E lo, hi \in SetMin(Years(df))..SetMax(Years(df)) :
                  lo <= hi /\ year_range' = <<lo, hi>>
            /\ \E lo, hi \in ValueStops(df) :
                  lo <= hi /\ value_range' = <<lo, hi>>
            /\ search' \in SearchTexts
    /\ UNCHANGED <<uploaded, default_file, cache, missing, columns, df, fdf,
                   by_city, page_size, total_pages, page, shown, csv>>

(***************************************************************************)
(* mask / fdf                                                              *)
(***************************************************************************)
\* Series.between(lo, hi), inclusive
Between(x, range) == range[1] <= x /\ x <= range[2]

\* the pattern matches the text from position i; "." matches any character,
\* the letters match without regard to case
MatchesAt(pat, txt, i) ==
    \A j \in 1..Len(pat) :
        pat[j] = "." \/ LowerChar(pat[j]) = LowerChar(txt[i + j - 1])

\* .str.contains(search, case=False, na=False): a regular-expression search
Contains(txt, pat) ==
    \E i \in 1..(Len(txt) - Len(pat) + 1) : MatchesAt(pat, txt, i)

Mask(r) ==
    /\ Between(r[cYear].n, year_range)
    /\ Between(r[cValue].n, value_range)
    /\ (city_sel # {} => r[cCity].s \in city_sel)
    /\ (receiver_sel # All => r[cReceiver].s = receiver_sel)
    /\ (type_sel # {} => r[cType].s \in type_sel)
    /\ (payes_sel # {} => r[cPayes].s \in {Lower(p) : p \in payes_sel})
    /\ (search # <<>> => Contains(r[cReceiver].s, search))

ApplyFilters ==
    /\ pc = "filter"
    /\ fdf' = SelectSeq(df, Mask)
    /\ pc' = "charts"
    /\ UNCHANGED <<uploaded, default_file, cache, missing, columns, df,
                   city_sel, receiver_sel, type_sel, payes_sel, year_range,
                   value_range, search, by_city, page_size, total_pages,
                   page, shown, csv>>

(***************************************************************************)
(* Quick charts: values by city                                            *)
(***************************************************************************)
RECURSIVE SumValue(_)
SumValue(t) == IF t = <<>> THEN 0 ELSE Head(t)[cValue].n + SumValue(Tail(t))

\* fdf.groupby("city", as_index=False)["value"].sum(): one entry per city
GroupSums(t) ==
    {[city |-> c, value |-> SumValue(SelectSeq(t, LAMBDA r : r[cCity].s = c))]
        : c \in Cities(t)}

\* the characters in code order
Chars == <<" ", ".", "0", "1", "2", "3", "4", "5", "6", "7", "8", "9">> \o Uppers \o Lowers

Ord(c) == CHOOSE i \in 1..Len(Chars) : Chars[i] = c

\* a < b for two texts, as Python compares strings
RECURSIVE TextLess(_, _)
TextLess(a, b) ==
    IF b = <<>> THEN FALSE
    ELSE IF a = <<>> THEN TRUE
    ELSE IF Head(a) # Head(b) THEN Ord(Head(a)) < Ord(Head(b))
    ELSE TextLess(Tail(a), Tail(b))

\* .sort_values("value", ascending=False) of the grouped frame, whose rows
\* groupby left in the order of the sorted city names: by descending sum,
\* entries of equal sum staying in the grouped frame's order.  The tie order
\* is computed from the grouped frame alone, whichever sort kind runs.
SortedDesc(G) ==
    {s \in [1..Cardinality(G) -> G] :
        \A i, j \in 1..Cardinality(G) : i < j =>
            \/ s[i].value > s[j].value
            \/ s[i].value = s[j].value /\ TextLess(s[i].city, s[j].city)}

TopN == 10

\* .head(10)
HeadN(s) == SubSeq(s, 1, IF Len(s) < TopN THEN Len(s) ELSE TopN)

Charts ==
    /\ pc = "charts"
    /\ \E s \in SortedDesc(GroupSums(fdf)) : by_city' = HeadN(s)
    /\ pc' = "table"
    /\ UNCHANGED <<uploaded, default_file, cache, missing, columns, df,
                   city_sel, receiver_sel, type_sel, payes_sel, year_range,
                   value_range, search, fdf, page_size, total_pages, page,
                   shown, csv>>

(***************************************************************************)
(* Data table (paginated) and download                                     *)
(***************************************************************************)
\* st.selectbox("Rows per page", [5, 10, 20, 50], index=1)
PageSizes == {5, 10, 20, 50}

\* math.ceil(n / size)
Ceil(n, size) == (n + size - 1) \div size

\* a page count rounded down
TotalPagesFloor(n, size) == IF n \div size < 1 THEN 1 ELSE n \div size

\* max(1, math.ceil(len(fdf) / page_size))
TotalPages(n, size) == IF Ceil(n, size) < 1 THEN 1 ELSE Ceil(n, size)

\* t.iloc[start:end]: the slice clipped to the table
ILoc(t, start, end) ==
    SubSeq(t, (IF start < Len(t) THEN start ELSE Len(t)) + 1,
              IF end < Len(t) THEN end ELSE Len(t))

\* start, end = (page - 1) * page_size, (page - 1) * page_size + page_size
PageOf(t, size, p) == ILoc(t, (p - 1) * size, (p - 1) * size + size)

Paginate ==
    /\ pc = "table"
    /\ page_size' \in PageSizes
    /\ total_pages' = TotalPages(Len(fdf), page_size')
    /\ page' \in 1..total_pages'
    /\ shown' = PageOf(fdf, page_size', page')
    /\ pc' = "export"
    /\ UNCHANGED <<uploaded, default_file, cache, missing, columns, df,
                   city_sel, receiver_sel, type_sel, payes_sel, year_range,
                   value_range, search, fdf, by_city, csv>>

\* fdf.to_csv(index=False): the header, then one line per row, every column
\* of the frame in the frame's column order.  A field is carried as its
\* cell; how a number is printed is left out.
ToCsv(cols, t) ==
    <<[j \in 1..Len(cols) |-> T(cols[j])]>> \o
    [i \in 1..Len(t) |-> [j \in 1..Len(cols) |-> t[i][cols[j]]]]

Export ==
    /\ pc = "export"
    /\ csv' = ToCsv(columns, fdf)
    /\ pc' = "done"
    /\ UNCHANGED <<uploaded, default_file, cache, missing, columns, df,
                   city_sel, receiver_sel, type_sel, payes_sel, year_range,
                   value_range, search, fdf, by_city, page_size, total_pages,
                   page, shown>>

(***************************************************************************)
(* Interactions between runs (the session)                                 *)
(***************************************************************************)
AtRest == pc \in {"done", "stopped", "raised"}

\* a rerun starts the script afresh
Restart ==
    /\ pc' = "load"
    /\ missing' = <<>> /\ columns' = <<>> /\ df' = <<>>
    /\ city_sel' = {} /\ receiver_sel' = <<>> /\ type_sel' = {} /\ payes_sel' = {}
    /\ year_range' = <<0, 0>> /\ value_range' = <<0, 0>> /\ search' = <<>>
    /\ fdf' = <<>> /\ by_city' = <<>>
    /\ page_size' = 0 /\ total_pages' = 0 /\ page' = 0
    /\ shown' = <<>> /\ csv' = <<>>

(***************************************************************************)
(* Inputs                                                                  *)
(***************************************************************************)
tA    == <<"A">>
tB    == <<"B">>
tC    == <<"C">>
tBob  == <<"B","o","b">>
tAnn  == <<"A","n","n">>
tT1   == <<"t","1">>
tT2   == <<"t","2">>

\* a row as column name -> cell as written in the file
Tpl(city, year, receiver, value, type, payes) ==
    (cCity :> city) @@ (cYear :> year) @@ (cReceiver :> receiver) @@
    (cValue :> value) @@ (cType :> type) @@ (cPayes :> payes) @@
    (cNote :> T(<<"x">>))

\* a header with an extra column, in another order than the expected one
shuffled == <<cYear, cCity, cNote, cValue, cReceiver, cPayes, cType>>

\* a header name as written: as is (0), or capitalised between blanks (1)
Written(c, style) ==
    IF style = 0 THEN c ELSE <<" ", UpperChar(Head(c))>> \o Tail(c) \o <<" ">>

MakeFile(order, style, tpls) ==
    File([i \in 1..Len(order) |-> Written(order[i], style)],
         [k \in 1..Len(tpls) |-> [i \in 1..Len(order) |-> tpls[k][order[i]]]])

SeqsUpTo(S, n) == UNION {[1..m -> S] : m \in 0..n}

\* rows that give both sliders a range: two years and two values among them
HasRange(tpls) ==
    /\ \E i, j \in 1..Len(tpls) : tpls[i][cYear] # tpls[j][cYear]
    /\ \E i, j \in 1..Len(tpls) : tpls[i][cValue] # tpls[j][cValue]

rowA == Tpl(T(tA), Num(2020 * Milli), T(tBob), Num(1000), T(tT1), T(yes))
rowB == Tpl(T(tB), Num(2021 * Milli), T(tAnn), Num(2000), T(tT2), T(no))

\* the files of a session
SessionFiles == {MakeFile(expected, 0, <<rowA>>), MakeFile(shuffled, 1, <<rowB>>)}

Init ==
    /\ uploaded = None
    /\ default_file \in {None} \cup SessionFiles
    /\ cache = {}
    /\ pc = "load"
    /\ BlankRun

\* a file is uploaded, or replaces the uploaded one
Upload ==
    /\ AtRest
    /\ uploaded' \in SessionFiles \ {uploaded}
    /\ Restart
    /\ UNCHANGED <<default_file, cache>>

RemoveUpload ==
    /\ AtRest
    /\ uploaded.present
    /\ uploaded' = None
    /\ Restart
    /\ UNCHANGED <<default_file, cache>>

\* fake_data.csv is written, replaced or deleted on disk; nothing reruns
ChangeDefault ==
    /\ AtRest
    /\ default_file' \in ({None} \cup SessionFiles) \ {default_file}
    /\ UNCHANGED <<uploaded, cache, pc, missing, columns, df, city_sel,
                   receiver_sel, type_sel, payes_sel, year_range, value_range,
                   search, fdf, by_city, page_size, total_pages, page, shown,
                   csv>>

\* a filter or the page is changed: the script reruns
Interact ==
    /\ AtRest
    /\ Restart
    /\ UNCHANGED <<uploaded, default_file, cache>>

Next ==
    \/ LoadData \/ Widgets \/ ApplyFilters \/ Charts \/ Paginate \/ Export
    \/ Upload \/ RemoveUpload \/ ChangeDefault \/ Interact

Spec == Init /\ [][Next]_vars

\* the file the run reads: the upload, or else fake_data.csv
Input == IF uploaded.present THEN uploaded ELSE default_file

\* row i of the frame as read, before the coercions
InputRow(i) == RowOf(Rename(Input.columns), Input.rows[i])

(***************************************************************************)
(* Schema check: files whose header keeps any part of a column order       *)
(***************************************************************************)
SchemaHeaders ==
    {SelectSeq(order, LAMBDA c : c \in K) :
        order \in {expected, shuffled}, K \in (SUBSET Range(shuffled)) \ {{}}} \ {<<>>}

SchemaFiles ==
    {MakeFile(h, style, <<rowA>>) : h \in SchemaHeaders, style \in {0, 1}}

InitSchema ==
    /\ \E f \in SchemaFiles, asUpload \in BOOLEAN :
          /\ uploaded = (IF asUpload THEN f ELSE None)
          /\ default_file = (IF asUpload THEN None ELSE f)
    /\ cache = {}
    /\ pc = "load"
    /\ BlankRun

NextSchema ==
    LoadData \/ Widgets \/ ApplyFilters \/ Charts \/ Paginate \/ Export

SpecSchema == InitSchema /\ [][NextSchema]_vars

(***************************************************************************)
(* Coercion and row dropping: files whose year and value cells vary        *)
(***************************************************************************)
MaxLoadRows == 2

tAbc == <<"a","b","c">>

YearCells  == {Num(2020 * Milli), Num(2021 * Milli), Num(2020 * Milli + 500),
               T(tAbc), NaN}
ValueCells == {Num(1006), T(tAbc), NaN}

LoadRows ==
    {Tpl(T(tA), y, T(tBob), v, T(tT1), T(yes)) : y \in YearCells, v \in ValueCells}

LoadFiles ==
    {MakeFile(expected, 0, rows) : rows \in SeqsUpTo(LoadRows, MaxLoadRows)}
    \cup {MakeFile(shuffled, 1, rows) : rows \in SeqsUpTo(LoadRows, MaxLoadRows)}

InitLoad ==
    /\ uploaded \in LoadFiles
    /\ default_file = None
    /\ cache = {}
    /\ pc = "load"
    /\ BlankRun

NextLoad == LoadData

SpecLoad == InitLoad /\ [][NextLoad]_vars

(***************************************************************************)
(* payes normalization: one-row files whose payes cell varies              *)
(***************************************************************************)
MaxPayesLen == 4

PayesChars == {" ", "n", "N", "o", "O", "w", "W"}

PayesCells ==
    {NaN}
    \cup {T(s) : s \in SeqsUpTo(PayesChars, MaxPayesLen)}
    \cup {T(<<" ","n","o","w"," ">>), T(<<" ","N","O","W"," "," ">>),
          T(yes), T(<<" ","Y","e","s">>), T(<<"m","a","y","b","e">>),
          T(<<"M","a","y","b","e"," ">>), T(<<"n","o"," ","w">>)}

PayesFiles ==
    {MakeFile(expected, 0, <<Tpl(T(tA), Num(2020 * Milli), T(tBob), Num(1000), T(tT1), c)>>)
        : c \in PayesCells}

InitPayes ==
    /\ uploaded \in PayesFiles
    /\ default_file = None
    /\ cache = {}
    /\ pc = "load"
    /\ BlankRun

NextPayes == LoadData

SpecPayes == InitPayes /\ [][NextPayes]_vars

(***************************************************************************)
(* Filtering: files of a few rows, every choice of the widgets             *)
(***************************************************************************)
MaxFilterRows == 2

FilterRows ==
    { Tpl(T(tA), Num(2020 * Milli), T(tBob), Num(1006), T(tT1), T(yes)),
      Tpl(T(tB), Num(2021 * Milli), NaN,     Num(2000), T(tT2), T(<<"N","o","w">>)),
      Tpl(T(tA), Num(2021 * Milli), T(tAnn), Num(3004), T(tT1), T(<<"N","o"," ">>)),
      Tpl(T(tB), Num(2020 * Milli), T(<<"b","o","b">>), Num(2000), T(tT2),
          T(<<"m","a","y","b","e">>)) }

FilterFiles ==
    {MakeFile(expected, 0, rows) :
        rows \in {r \in SeqsUpTo(FilterRows, MaxFilterRows) : HasRange(r)}}

InitFilter ==
    /\ uploaded \in FilterFiles
    /\ default_file = None
    /\ cache = {}
    /\ pc = "load"
    /\ BlankRun

NextFilter == LoadData \/ Widgets \/ ApplyFilters

SpecFilter == InitFilter /\ [][NextFilter]_vars

(***************************************************************************)
(* Runs in which the user leaves the filters alone, taken up after         *)
(* load_data has returned and the mask has been applied                    *)
(***************************************************************************)
Filtered(f, srch) ==
    /\ uploaded = f
    /\ default_file = None
    /\ cache = {[key |-> f, columns |-> Normalize(f).columns, df |-> Normalize(f).df]}
    /\ missing = <<>>
    /\ columns = Normalize(f).columns
    /\ df = Normalize(f).df
    /\ city_sel = {} /\ receiver_sel = All /\ type_sel = {} /\ payes_sel = {}
    /\ year_range = DefaultYearRange(df)
    /\ value_range = DefaultValueRange(df)
    /\ search = srch
    /\ fdf = SelectSeq(df, Mask)

(***************************************************************************)
(* Charts: files whose city and value cells vary                           *)
(***************************************************************************)
MaxChartRows == 3

ChartRows(i) ==
    {Tpl(T(c), Num((2019 + i) * Milli), T(tBob), Num(v * Milli), T(tT1), T(yes))
        : c \in {tA, tB, tC}, v \in {5, 10, 15}}

ChartFiles ==
    {MakeFile(expected, 0, rows) :
        rows \in {r \in SeqsUpTo(UNION {ChartRows(i) : i \in 1..MaxChartRows},
                                    MaxChartRows) :
                      HasRange(r) /\ \A i \in 1..Len(r) : r[i] \in ChartRows(i)}}

InitCharts ==
    /\ \E f \in ChartFiles : Filtered(f, <<>>)
    /\ pc = "charts"
    /\ by_city = <<>>
    /\ page_size = 0 /\ total_pages = 0 /\ page = 0
    /\ shown = <<>> /\ csv = <<>>

NextCharts == Charts

SpecCharts == InitCharts /\ [][NextCharts]_vars

(***************************************************************************)
(* Pages and export: tables of several rows, in either column order        *)
(***************************************************************************)
MaxPageRows == 51

PageRow(i) == Tpl(T(tA), Num((2000 + i) * Milli), T(tAnn), Num(i * Milli), T(tT1), T(yes))

PageFiles ==
    {MakeFile(order, style, [i \in 1..n |-> PageRow(i)]) :
        order \in {expected, shuffled}, style \in {0, 1}, n \in 2..MaxPageRows}

InitPage ==
    /\ \E f \in PageFiles, srch \in {<<>>, <<"b","o">>, <<"N","A">>} : Filtered(f, srch)
    /\ pc = "table"
    /\ by_city \in {HeadN(s) : s \in SortedDesc(GroupSums(fdf))}
    /\ page_size = 0 /\ total_pages = 0 /\ page = 0
    /\ shown = <<>> /\ csv = <<>>

NextPage == Paginate \/ Export

SpecPage == InitPage /\ [][NextPage]_vars

(***************************************************************************)
(* Properties                                                              *)
(***************************************************************************)
Pos(c) == CHOOSE i \in 1..Len(expected) : expected[i] = c

\* the widgets as the program sets them when the user touches nothing
AllDefault ==
    /\ city_sel = {} /\ receiver_sel = All /\ type_sel = {} /\ payes_sel = {}
    /\ search = <<>>
    /\ year_range = <<SetMin(Years(df)), SetMax(Years(df))>>
    /\ value_range = <<Round2(SetMin(Values(df))), Round2(SetMax(Values(df)))>>

\* C1: with the all-default widget values the filtered table is the
\* normalized table, same rows in the same order.
C1_DefaultsKeepEveryRow ==
    (pc = "charts" /\ AllDefault) => fdf = df

\* C2: when a required column is absent after trimming and lower-casing the
\* header names, load_data halts reporting exactly the absent names in
\* canonical order and nothing downstream is produced; when all six are
\* there, no schema error is reported.
C2_SchemaError ==
    pc # "load" =>
        LET names  == {Lower(Strip(c)) : c \in Range(Input.columns)}
            absent == {c \in Range(expected) : c \notin names}
        IN  IF absent # {}
            THEN /\ pc = "stopped"
                 /\ Range(missing) = absent
                 /\ Len(missing) = Cardinality(absent)
                 /\ \A i, j \in 1..Len(missing) : i < j => Pos(missing[i]) < Pos(missing[j])
                 /\ columns = <<>> /\ df = <<>> /\ fdf = <<>> /\ by_city = <<>>
                 /\ page_size = 0 /\ shown = <<>> /\ csv = <<>>
            ELSE missing = <<>> /\ pc # "stopped"

\* C2 witness: a header written with capitals and blanks that lacks year and
\* payes has been refused.
C2_Witness ==
    /\ pc = "stopped"
    /\ missing = <<cYear, cPayes>>
    /\ <<" ","C","i","t","y"," ">> \in Range(Input.columns)

Coercible(i) == Input.rows[i] # <<>> /\ InputRow(i)[cYear].k = "num" /\ InputRow(i)[cValue].k = "num"

\* C3: for an input with the six columns load_data returns a table, and it
\* holds exactly the rows whose year and value are both numbers, in order.
C3_KeepsExactlyCoercibleRows ==
    pc # "load" =>
        /\ pc = "widgets"
        /\ LET kept == SelectSeq([i \in 1..Len(Input.rows) |-> i], Coercible)
           IN  /\ Len(df) = Len(kept)
               /\ \A k \in 1..Len(kept) :
                     /\ df[k][cYear].n * Milli = InputRow(kept[k])[cYear].n
                     /\ df[k][cValue].n = InputRow(kept[k])[cValue].n
        /\ \A k \in 1..Len(df) : df[k][cYear].k = "num" /\ df[k][cValue].k = "num"

\* the search text occurs in the text, letters compared without case
OccursIn(pat, txt) ==
    \E i \in 1..(Len(txt) - Len(pat) + 1) :
        \A j \in 1..Len(pat) : LowerChar(pat[j]) = LowerChar(txt[i + j - 1])

Wanted(r) ==
    /\ year_range[1] <= r[cYear].n /\ r[cYear].n <= year_range[2]
    /\ value_range[1] <= r[cValue].n /\ r[cValue].n <= value_range[2]
    /\ (city_sel # {} => r[cCity].s \in city_sel)
    /\ (receiver_sel # All => r[cReceiver].s = receiver_sel)
    /\ (type_sel # {} => r[cType].s \in type_sel)
    /\ (payes_sel # {} => r[cPayes].s \in payes_sel)
    /\ (search # <<>> => OccursIn(search, r[cReceiver].s))

\* C4: the filtered table holds, in order, exactly the rows that satisfy
\* every active predicate, the search being a case-insensitive substring.
C4_FilterIsConjunction ==
    pc = "charts" => fdf = SelectSeq(df, Wanted)

\* C5: total_pages is max(1, ceil(rows / page size)) and the pages 1 to
\* total_pages, laid end to end, are the filtered table; the page shown is
\* the slice of its index, and the empty table has one page of no rows.
RECURSIVE Pages(_, _, _, _)
Pages(t, size, p, last) ==
    IF p > last THEN <<>> ELSE PageOf(t, size, p) \o Pages(t, size, p + 1, last)

C5_PagesCoverTable ==
    pc \in {"export", "done"} =>
        /\ total_pages >= 1
        /\ (total_pages - 1) * page_size < Len(fdf) \/ total_pages = 1
        /\ Len(fdf) <= total_pages * page_size
        /\ Pages(fdf, page_size, 1, total_pages) = fdf
        /\ \A p \in 1..total_pages :
              \A k \in 1..Len(PageOf(fdf, page_size, p)) :
                  PageOf(fdf, page_size, p)[k] = fdf[(p - 1) * page_size + k]
        /\ shown = PageOf(fdf, page_size, page)
        /\ (fdf = <<>> => total_pages = 1 /\ shown = <<>>)

\* C5 witness: eleven rows at five per page, the third page holding the
\* last row alone.
C5_Witness ==
    /\ pc = "done"
    /\ Len(fdf) = 11 /\ page_size = 5 /\ total_pages = 3 /\ page = 3
    /\ shown = <<fdf[11]>>

FirstRowOf(c) == CHOOSE i \in 1..Len(fdf) : fdf[i][cCity].s = c /\ \A j \in 1..(i - 1) : fdf[j][cCity].s # c

\* C6: by_city is one entry per city with its summed value, by descending
\* sum, at most ten entries, equal sums in the order the cities first occur.
C6_TiesByFirstOccurrence ==
    pc = "table" =>
        /\ Range(by_city) \subseteq GroupSums(fdf)
        /\ Len(by_city) = (IF Cardinality(GroupSums(fdf)) < 10
                           THEN Cardinality(GroupSums(fdf)) ELSE 10)
        /\ \A i, j \in 1..Len(by_city) : i < j =>
              \/ by_city[i].value > by_city[j].value
              \/ /\ by_city[i].value = by_city[j].value
                 /\ FirstRowOf(by_city[i].city) < FirstRowOf(by_city[j].city)

\* C7: the exported CSV is a header line and one line per filtered row, in
\* filtered order whatever the page, its columns in the canonical order.
C7_CsvCanonicalColumns ==
    pc = "done" =>
        /\ Len(csv) = 1 + Len(fdf)
        /\ SelectSeq(csv[1], LAMBDA x : x.s \in Range(expected))
              = [j \in 1..Len(expected) |-> T(expected[j])]
        /\ \A i \in 1..Len(fdf) :
              \A j \in 1..Len(expected) :
                  \E m \in 1..Len(csv[1]) :
                      /\ csv[1][m] = T(expected[j])
                      /\ csv[i + 1][m] = fdf[i][expected[j]]

IsBlanks(s) == \A i \in 1..Len(s) : s[i] = " "

\* a text that is "now" in any mix of cases between blanks
IsNowVariant(s) ==
    \E a, b \in 0..Len(s) :
        /\ a + 3 + b = Len(s)
        /\ IsBlanks(SubSeq(s, 1, a))
        /\ IsBlanks(SubSeq(s, a + 4, Len(s)))
        /\ s[a + 1] \in {"n", "N"} /\ s[a + 2] \in {"o", "O"} /\ s[a + 3] \in {"w", "W"}

\* C8: the normalized payes is a fixed point of the normalization, is "no"
\* for every case and whitespace variant of "now", and is otherwise the
\* trimmed lower-cased text of the cell.
C8_PayesNormalization ==
    pc = "widgets" =>
        \A i \in 1..Len(df) :
            LET x == Input.rows[i][Pos(cPayes)]
                y == df[i][cPayes]
            IN  /\ NormPayes(y) = y
                /\ (x.k = "text" /\ IsNowVariant(x.s)) => y.s = no
                /\ (x.k = "text" /\ ~IsNowVariant(x.s)) =>
                      /\ y.s = Lower(Strip(x.s))
                      /\ y.s # no \/ Lower(Strip(x.s)) = no
                /\ x = T(yes) => y.s = yes
                /\ x = T(<<"m","a","y","b","e">>) => y.s = <<"m","a","y","b","e">>

\* C8 witness: a payes cell written " nOW" has been loaded as "no".
C8_Witness ==
    /\ pc = "widgets"
    /\ Input.rows[1][Pos(cPayes)] = T(<<" ","n","O","W">>)
    /\ df[1][cPayes].s = no

\* C9: under a non-empty search no row whose receiver was missing in the
\* input is in the filtered table.
C9_MissingReceiverNeverMatches ==
    (pc = "charts" /\ search # <<>>) =>
        \A i \in 1..Len(Input.rows) :
            InputRow(i)[cReceiver].k = "nan" =>
                \A k \in 1..Len(fdf) : fdf[k] # Coerce(InputRow(i))

\* C10: the table a run works on is the normalization of the input that
\* run was given.
C10_TableIsOfCurrentInput ==
    pc = "widgets" =>
        /\ Input.present
        /\ Normalize(Input).status = "ok"
        /\ df = Normalize(Input).df
        /\ columns = Normalize(Input).columns

====
